---- MODULE Spec2Model ----
(***************************************************************************)
(* Model of src/app.go: an HTTP CRUD service over one MongoDB collection   *)
(* of products.  Every handler copies a session, reads its inputs, issues  *)
(* one storage operation, writes a response and closes its session.        *)
(*                                                                         *)
(* Strings are modelled by what they contain: the 24 character hex text of *)
(* an object identifier, the 12 raw bytes of that identifier, the empty    *)
(* string, and a string that is not the hex text of any identifier.  BSON  *)
(* values carry their type, because the database compares typed values.    *)
(***************************************************************************)
EXTENDS Integers, FiniteSets, Sequences, TLC

\* Number of distinct object identifiers in play.
MaxId == 2

IdNums == 1..MaxId

\* In-flight request slots (net/http serves each request on its own goroutine).
Requests == {"r1", "r2"}

\* name/price pairs carried by request bodies.
Payloads == {<<"a", "1">>, <<"b", "2">>}

Ops == {"list", "get", "create", "update", "delete"}

----------------------------------------------------------------------------
\* Strings.

HexStr(k) == <<"hex", k>>
RawStr(k) == <<"raw", k>>
EmptyStr == <<"empty", 0>>
BadStr == <<"bad", 0>>
\* The "id" member is missing from the JSON object.
NoId == <<"absent", 0>>

\* bson.ObjectIdHex: the 12 bytes written by 24 hex characters.
ObjectIdHex(s) == RawStr(s[2])

\* bson.ObjectId.Hex / MarshalJSON: the hex text of the 12 bytes.
Hex(oid) == IF oid[1] = "raw" THEN HexStr(oid[2]) ELSE EmptyStr

\* Values pat.Param(r, "id") can deliver: one non-empty path segment.
PathIds == {HexStr(k) : k \in IdNums} \cup {RawStr(k) : k \in IdNums} \cup {BadStr}

\* Values the "id" member of a JSON body takes here: missing, a string that
\* is no identifier, and the hex text of an identifier.
BodyIds == {NoId, BadStr} \cup {HexStr(k) : k \in IdNums}

NoBody == [kind |-> "none", id |-> NoId, name |-> "", price |-> ""]

\* Request bodies: text that is not JSON, JSON with a member of the wrong
\* type, and JSON objects with string members.
Bodies ==
    {[kind |-> k, id |-> NoId, name |-> "", price |-> ""] : k \in {"malformed", "mismatch"}}
    \cup {[kind |-> "object", id |-> i, name |-> p[1], price |-> p[2]] :
              i \in BodyIds, p \in Payloads}

----------------------------------------------------------------------------
\* Product and its codecs.

\* The zero value of the Go struct.
Product == [ID |-> EmptyStr, Name |-> "", Price |-> ""]

\* Decode with its error dropped: a body that does not decode leaves the
\* zero Product and the handler carries on.
DecodeLenient(body) ==
    IF body.kind # "object" \/ body.id = BadStr
    THEN [err |-> FALSE, product |-> Product]
    ELSE [err |-> FALSE,
          product |-> [ID |-> IF body.id \in {NoId, EmptyStr}
                              THEN EmptyStr ELSE ObjectIdHex(body.id),
                       Name |-> body.name, Price |-> body.price]]

\* json.Decoder.Decode into a Product.  bson.ObjectId accepts "" and the
\* 24 character hex text, and rejects every other string.
Decode(body) ==
    IF body.kind # "object" \/ body.id = BadStr
    THEN [err |-> TRUE, product |-> Product]
    ELSE [err |-> FALSE,
          product |-> [ID |-> IF body.id \in {NoId, EmptyStr}
                              THEN EmptyStr ELSE ObjectIdHex(body.id),
                       Name |-> body.name, Price |-> body.price]]

BString(s) == [type |-> "string", val |-> s]
BObjectId(oid) == [type |-> "objectId", val |-> oid]

\* Typed comparison of two BSON values, as the database does it.
BsonEq(a, b) == a.type = b.type /\ a.val = b.val

\* bson.Marshal of a Product: `bson:"_id,omitempty"` drops an empty ID, the
\* other members take their lower-cased names.
Marshal(p) ==
    LET rest == ("name" :> BString(p.Name)) @@ ("price" :> BString(p.Price))
    IN  IF p.ID = EmptyStr THEN rest ELSE ("_id" :> BObjectId(p.ID)) @@ rest

\* bson.Unmarshal of a stored document into a Product.
Unmarshal(doc) ==
    [ID |-> IF "_id" \in DOMAIN doc /\ doc["_id"].type = "objectId"
            THEN doc["_id"].val ELSE EmptyStr,
     Name |-> IF "name" \in DOMAIN doc THEN doc["name"].val ELSE "",
     Price |-> IF "price" \in DOMAIN doc THEN doc["price"].val ELSE ""]

\* json.MarshalIndent of a Product: `json:"id"` is the hex text.
ToJSON(p) == [id |-> Hex(p.ID), name |-> p.Name, price |-> p.Price]

----------------------------------------------------------------------------
\* The collection, as the database serves it.

BNull == [type |-> "null", val |-> EmptyStr]

\* The index created by every collection, on _id.
IdIndex == [key |-> "_id", unique |-> TRUE, sparse |-> FALSE]

\* A document matches a selector when it has every selected field with an
\* equal value of the same type.
Matches(doc, sel) == \A f \in DOMAIN sel : f \in DOMAIN doc /\ BsonEq(doc[f], sel[f])

Matching(coll, sel) == {d \in coll : Matches(d, sel)}

\* The value a document contributes to an index.
KeyOf(doc, k) == IF k \in DOMAIN doc THEN doc[k] ELSE BNull

Indexed(idx, doc) == ~idx.sparse \/ idx.key \in DOMAIN doc

\* Inserting doc would put a second entry with the same value in a unique index.
IsDup(coll, idxs, doc) ==
    \E idx \in idxs : /\ idx.unique
                      /\ Indexed(idx, doc)
                      /\ \E e \in coll : Indexed(idx, e)
                                         /\ BsonEq(KeyOf(e, idx.key), KeyOf(doc, idx.key))

\* Identifiers the server can generate for a document that carries none.
FreeIds(coll) == {k \in IdNums : \A e \in coll : ~BsonEq(e["_id"], BObjectId(RawStr(k)))}

\* Insert without the unique index on _id.
InsertUnchecked(coll, idxs, doc, newid) ==
    LET d == IF "_id" \in DOMAIN doc THEN doc
             ELSE ("_id" :> BObjectId(RawStr(newid))) @@ doc
    IN  [err |-> "nil", coll |-> coll \cup {d}]

\* Collection.Insert: the server adds _id when the document has none.
Insert(coll, idxs, doc, newid) ==
    LET d == IF "_id" \in DOMAIN doc THEN doc
             ELSE ("_id" :> BObjectId(RawStr(newid))) @@ doc
    IN  IF IsDup(coll, idxs, d)
        THEN [err |-> "dup", coll |-> coll]
        ELSE [err |-> "nil", coll |-> coll \cup {d}]

\* Query.All behind a Limit(1).
FindAllLimited(coll) ==
    [err |-> "nil", docs |-> IF coll = {} THEN {} ELSE {CHOOSE d \in coll : TRUE}]

\* Query.All over an empty selector.
FindAll(coll) == [err |-> "nil", docs |-> coll]

\* Query.One: ErrNotFound when nothing matches.
FindOne(coll, sel) ==
    IF Matching(coll, sel) = {}
    THEN [err |-> "ErrNotFound", product |-> Product]
    ELSE [err |-> "nil", product |-> Unmarshal(CHOOSE d \in Matching(coll, sel) : TRUE)]

\* Collection.Upsert in place of Update: inserts when nothing matches.
UpdateUpsert(coll, sel, doc) ==
    IF Matching(coll, sel) = {}
    THEN [err |-> "nil", coll |-> coll \cup {sel @@ doc}]
    ELSE LET old == CHOOSE d \in Matching(coll, sel) : TRUE
         IN  IF "_id" \in DOMAIN doc /\ ~BsonEq(doc["_id"], old["_id"])
             THEN [err |-> "other", coll |-> coll]
             ELSE [err |-> "nil",
                   coll |-> (coll \ {old}) \cup {("_id" :> old["_id"]) @@ doc}]

\* Collection.Update: replaces one matching document by doc.  The replaced
\* document keeps its _id; a replacement carrying another _id is refused.
Update(coll, sel, doc) ==
    IF Matching(coll, sel) = {}
    THEN [err |-> "ErrNotFound", coll |-> coll]
    ELSE LET old == CHOOSE d \in Matching(coll, sel) : TRUE
         IN  IF "_id" \in DOMAIN doc /\ ~BsonEq(doc["_id"], old["_id"])
             THEN [err |-> "other", coll |-> coll]
             ELSE [err |-> "nil",
                   coll |-> (coll \ {old}) \cup {("_id" :> old["_id"]) @@ doc}]

\* Collection.Remove: removes one matching document.
Remove(coll, sel) ==
    IF Matching(coll, sel) = {}
    THEN [err |-> "ErrNotFound", coll |-> coll]
    ELSE [err |-> "nil", coll |-> coll \ {CHOOSE d \in Matching(coll, sel) : TRUE}]

\* The handler works on the session it was given instead of a copy.
CopyShared(open) == 0

\* Session.Copy: a new session, distinct from every open one.
Copy(open) == CHOOSE s \in 1..(Cardinality(open) + 1) :
                  s \notin open /\ \A t \in 1..(s - 1) : t \in open

\* Session.Close.
SessionClose(open, s) == open \ {s}

----------------------------------------------------------------------------
\* Responses.

NoLocation == [path |-> "", id |-> EmptyStr]

NoResp == [status |-> 0, msg |-> "", loc |-> NoLocation, docs |-> {}, dbop |-> "none"]

\* ErrorWithJSON
ErrorWithJSON(message, code, dbop) ==
    [status |-> code, msg |-> message, loc |-> NoLocation, docs |-> {}, dbop |-> dbop]

\* ResponseWithJSON
ResponseWithJSON(json, code, dbop) ==
    [status |-> code, msg |-> "", loc |-> NoLocation, docs |-> json, dbop |-> dbop]

\* w.WriteHeader(code) with an optional Location header and no body.
WriteHeader(code, loc, dbop) ==
    [status |-> code, msg |-> "", loc |-> loc, docs |-> {}, dbop |-> dbop]

\* The identifier a client sees for a stored document: its id in JSON.
Identifier(doc) == ToJSON(Unmarshal(doc)).id

HasId(coll, id) == \E d \in coll : Identifier(d) = id

----------------------------------------------------------------------------
\* State.

VARIABLES
    mainpc,     \* position of main: "dialed", then "serving"
    indexes,    \* indexes of the collection
    store,      \* documents of store.products
    sessions,   \* open sessions; 0 is the session main dialed
    req,        \* per request slot: position, inputs read so far, response
    live,       \* products of creates answered 201, not updated or deleted since
    nCreated,   \* number of creates answered 201
    nRemoved    \* number of deletes answered 204

vars == <<mainpc, indexes, store, sessions, req, live, nCreated, nRemoved>>

Root == 0

Idle == [pc |-> "idle", op |-> "none", session |-> Root, id |-> EmptyStr,
         body |-> NoBody, reachable |-> TRUE, resp |-> NoResp]

\* main after mgo.Dial and SetMode, before ensureIndex.
Init ==
    /\ mainpc = "dialed"
    /\ indexes = {IdIndex}
    /\ store = {}
    /\ sessions = {Root}
    /\ req = [r \in Requests |-> Idle]
    /\ live = {}
    /\ nCreated = 0
    /\ nRemoved = 0

\* ensureIndex: copies a session, creates the index and closes the session;
\* main then serves.
ensureIndex ==
    /\ mainpc = "dialed"
    /\ LET session == Copy(sessions)
           index == [key |-> "isbn", unique |-> TRUE, sparse |-> TRUE]
       IN  /\ indexes' = indexes \cup {index}
           /\ sessions' = SessionClose(sessions \cup {session}, session)
    /\ mainpc' = "serving"
    /\ UNCHANGED <<store, req, live, nCreated, nRemoved>>

\* Entry of every handler: session := s.Copy().
Begin(r) ==
    /\ mainpc = "serving"
    /\ req[r].pc = "idle"
    /\ \E op \in Ops :
          LET session == Copy(sessions)
          IN  /\ sessions' = sessions \cup {session}
              /\ req' = [req EXCEPT ![r] = [Idle EXCEPT !.pc = "copied", !.op = op,
                                                        !.session = session]]
    /\ UNCHANGED <<mainpc, indexes, store, live, nCreated, nRemoved>>

\* The handler has written its response; the deferred Close is pending.
Respond(r, id, body, reachable, resp) ==
    req' = [req EXCEPT ![r] = [@ EXCEPT !.pc = "responded", !.id = id, !.body = body,
                                        !.reachable = reachable, !.resp = resp]]

\* getAllProducts
getAllProducts(r) ==
    /\ req[r].pc = "copied" /\ req[r].op = "list"
    /\ \E reachable \in BOOLEAN :
          LET res == IF reachable THEN FindAll(store) ELSE [err |-> "other", docs |-> {}]
              products == {Unmarshal(d) : d \in res.docs}
              resp == IF res.err # "nil"
                      THEN ErrorWithJSON("Database error", 500, "Find")
                      ELSE ResponseWithJSON({ToJSON(p) : p \in products}, 200, "Find")
          IN  Respond(r, EmptyStr, NoBody, reachable, resp)
    /\ UNCHANGED <<mainpc, indexes, store, sessions, live, nCreated, nRemoved>>

\* getProductById
getProductById(r) ==
    /\ req[r].pc = "copied" /\ req[r].op = "get"
    /\ \E id \in PathIds, reachable \in BOOLEAN :
          LET res == IF reachable THEN FindOne(store, "_id" :> BString(id))
                     ELSE [err |-> "other", product |-> Product]
              resp == IF res.err # "nil"
                      THEN ErrorWithJSON("Database error", 500, "Find")
                      ELSE IF res.product.ID = EmptyStr
                      THEN ErrorWithJSON("Product not found", 404, "Find")
                      ELSE ResponseWithJSON({ToJSON(res.product)}, 200, "Find")
          IN  Respond(r, id, NoBody, reachable, resp)
    /\ UNCHANGED <<mainpc, indexes, store, sessions, live, nCreated, nRemoved>>

\* createProduct
createProduct(r) ==
    /\ req[r].pc = "copied" /\ req[r].op = "create"
    /\ \E body \in Bodies, reachable \in BOOLEAN :
          LET dec == Decode(body)
              product == dec.product
              doc == Marshal(product)
          IN  IF dec.err
              THEN /\ Respond(r, EmptyStr, body, reachable,
                              ErrorWithJSON("Incorrect body", 400, "none"))
                   /\ UNCHANGED <<store, live, nCreated>>
              ELSE \E newid \in IF "_id" \in DOMAIN doc \/ ~reachable
                                THEN {0} ELSE FreeIds(store) :
                      LET res == IF reachable THEN Insert(store, indexes, doc, newid)
                                 ELSE [err |-> "other", coll |-> store]
                          resp == IF res.err = "dup"
                                  THEN ErrorWithJSON("Product with this id already exists",
                                                     400, "Insert")
                                  ELSE IF res.err # "nil"
                                  THEN ErrorWithJSON("Database error", 500, "Insert")
                                  ELSE WriteHeader(201, [path |-> "/products",
                                                         id |-> product.ID], "Insert")
                      IN  /\ Respond(r, EmptyStr, body, reachable, resp)
                          /\ store' = res.coll
                          /\ live' = IF resp.status = 201
                                     THEN live \cup {ToJSON(Unmarshal(d)) : d \in res.coll \ store}
                                     ELSE live
                          /\ nCreated' = IF resp.status = 201 THEN nCreated + 1 ELSE nCreated
    /\ UNCHANGED <<mainpc, indexes, sessions, nRemoved>>

\* updateProductById
updateProductById(r) ==
    /\ req[r].pc = "copied" /\ req[r].op = "update"
    /\ \E id \in PathIds, body \in Bodies, reachable \in BOOLEAN :
          LET dec == Decode(body)
              res == IF reachable
                     THEN Update(store, "_id" :> BString(id), Marshal(dec.product))
                     ELSE [err |-> "other", coll |-> store]
              resp == IF res.err = "ErrNotFound"
                      THEN ErrorWithJSON("Product not found", 404, "Update")
                      ELSE IF res.err # "nil"
                      THEN ErrorWithJSON("Database error", 500, "Update")
                      ELSE WriteHeader(204, NoLocation, "Update")
          IN  IF dec.err
              THEN /\ Respond(r, id, body, reachable,
                              ErrorWithJSON("Incorrect body", 400, "none"))
                   /\ UNCHANGED <<store, live>>
              ELSE /\ Respond(r, id, body, reachable, resp)
                   /\ store' = res.coll
                   /\ live' = IF resp.status = 204 THEN {p \in live : p.id # id} ELSE live
    /\ UNCHANGED <<mainpc, indexes, sessions, nCreated, nRemoved>>

\* deleteProductById
deleteProductById(r) ==
    /\ req[r].pc = "copied" /\ req[r].op = "delete"
    /\ \E id \in PathIds, reachable \in BOOLEAN :
          LET res == IF reachable THEN Remove(store, "id" :> BString(id))
                     ELSE [err |-> "other", coll |-> store]
              resp == IF res.err = "ErrNotFound"
                      THEN ErrorWithJSON("Product not found", 404, "Remove")
                      ELSE IF res.err # "nil"
                      THEN ErrorWithJSON("Database error", 500, "Remove")
                      ELSE WriteHeader(204, NoLocation, "Remove")
          IN  /\ Respond(r, id, NoBody, reachable, resp)
              /\ store' = res.coll
              /\ live' = IF resp.status = 204 THEN {p \in live : p.id # id} ELSE live
              /\ nRemoved' = IF resp.status = 204 THEN nRemoved + 1 ELSE nRemoved
    /\ UNCHANGED <<mainpc, indexes, sessions, nCreated>>

\* Exit of every handler: the deferred session.Close().
Close(r) ==
    /\ req[r].pc = "responded"
    /\ sessions' = SessionClose(sessions, req[r].session)
    /\ req' = [req EXCEPT ![r] = Idle]
    /\ UNCHANGED <<mainpc, indexes, store, live, nCreated, nRemoved>>

Next ==
    \/ ensureIndex
    \/ \E r \in Requests :
          \/ Begin(r)
          \/ getAllProducts(r)
          \/ getProductById(r)
          \/ createProduct(r)
          \/ updateProductById(r)
          \/ deleteProductById(r)
          \/ Close(r)

Spec == Init /\ [][Next]_vars

----------------------------------------------------------------------------
\* Vocabulary of the properties.

\* Request slot r runs the body of handler op in this step; its inputs and
\* its response are in req'[r].
Step(r, op) == req[r].pc = "copied" /\ req[r].op = op /\ req'[r].pc = "responded"

\* Request slot r has been answered by handler op and has not yet returned.
Answered(r, op) == req[r].pc = "responded" /\ req[r].op = op

\* The collection as clients see it: the JSON form of every stored document.
View(coll) == {ToJSON(Unmarshal(d)) : d \in coll}

\* The body is a JSON object whose members have the types of a Product:
\* strings, the id (when present and not empty) being the hex text of an
\* object identifier.
Valid(body) == body.kind = "object" /\ body.id # BadStr

InFlight == {r \in Requests : req[r].pc # "idle"}

----------------------------------------------------------------------------
\* C1: a create answered 201 puts the payload's name and price among the
\* live products, under the payload's id when it carries one, and a get on
\* the identifier of a live product answers 200 with exactly that product
\* (the store being reachable).
C1_RoundTrip ==
    [][\A r \in Requests :
          /\ (Step(r, "create") /\ req'[r].resp.status = 201)
                => \E p \in live' \ live :
                      /\ p.name = req'[r].body.name
                      /\ p.price = req'[r].body.price
                      /\ (req'[r].body.id \notin {NoId, EmptyStr} => p.id = req'[r].body.id)
          /\ (Step(r, "get") /\ req'[r].reachable
                  /\ \E p \in live : p.id = req'[r].id)
                => /\ req'[r].resp.status = 200
                   /\ req'[r].resp.docs = {p \in live : p.id = req'[r].id}]_vars

\* C2: a create answered 201 carries the Location /products/<identifier>,
\* the identifier being the one under which the document was stored.
C2_Location ==
    [][\A r \in Requests :
          (Step(r, "create") /\ req'[r].resp.status = 201)
             => \E d \in store' \ store :
                   req'[r].resp.loc = [path |-> "/products", id |-> Identifier(d)]]_vars

\* C3: with the store reachable, a delete on the identifier of a stored
\* document answers 204 and removes exactly that document, and a delete on
\* any other identifier answers 404 and removes nothing.
C3_Delete ==
    [][\A r \in Requests :
          (Step(r, "delete") /\ req'[r].reachable)
             => IF HasId(store, req'[r].id)
                THEN /\ req'[r].resp.status = 204
                     /\ store' = {d \in store : Identifier(d) # req'[r].id}
                ELSE /\ req'[r].resp.status = 404
                     /\ store' = store]_vars

\* C4: with the store reachable, a get on an identifier no stored document
\* has answers 404 "Product not found".
C4_GetNotFound ==
    [][\A r \in Requests :
          (Step(r, "get") /\ req'[r].reachable /\ ~HasId(store, req'[r].id))
             => /\ req'[r].resp.status = 404
                /\ req'[r].resp.msg = "Product not found"]_vars

\* C5: with the store reachable, an update with a valid body on an
\* identifier no stored document has answers 404 and leaves the collection
\* as it was.
C5_UpdateMissing ==
    [][\A r \in Requests :
          (Step(r, "update") /\ req'[r].reachable /\ Valid(req'[r].body)
              /\ ~HasId(store, req'[r].id))
             => /\ req'[r].resp.status = 404
                /\ req'[r].resp.msg = "Product not found"
                /\ store' = store]_vars

C5_Witness ==
    \E r \in Requests :
       /\ Answered(r, "update") /\ req[r].reachable /\ Valid(req[r].body)
       /\ store # {}
       /\ ~HasId(store, req[r].id)
       /\ req[r].resp.status = 404

\* C6: with the store reachable, a create whose id is the identifier of a
\* stored document answers 400 "Product with this id already exists" and
\* leaves the collection as it was; and no two stored documents ever have
\* the same identifier.
C6_Duplicate ==
    /\ [](\A d, e \in store : Identifier(d) = Identifier(e) => d = e)
    /\ [][\A r \in Requests :
             (Step(r, "create") /\ req'[r].reachable /\ Valid(req'[r].body)
                 /\ HasId(store, req'[r].body.id))
                => /\ req'[r].resp.status = 400
                   /\ req'[r].resp.msg = "Product with this id already exists"
                   /\ store' = store]_vars

C6_Witness ==
    \E r \in Requests :
       /\ Answered(r, "create") /\ req[r].reachable
       /\ HasId(store, req[r].body.id)
       /\ req[r].resp.status = 400
       /\ req[r].resp.msg = "Product with this id already exists"
       /\ Cardinality(store) = 2

\* C7: with the store reachable, list answers 200 with exactly the stored
\* documents, as many as creates were answered 201 less deletes answered 204.
C7_List ==
    [][\A r \in Requests :
          (Step(r, "list") /\ req'[r].reachable)
             => /\ req'[r].resp.status = 200
                /\ req'[r].resp.docs = View(store)
                /\ Cardinality(req'[r].resp.docs) = nCreated - nRemoved]_vars

C7_Witness ==
    \E r \in Requests :
       /\ Answered(r, "list") /\ req[r].reachable
       /\ req[r].resp.status = 200
       /\ Cardinality(req[r].resp.docs) = 2
       /\ nCreated = 2

\* C8: a create or update whose body does not decode answers 400
\* "Incorrect body", issues no storage operation and leaves the collection
\* as it was.
C8_BadBody ==
    [][\A r \in Requests :
          ((Step(r, "create") \/ Step(r, "update")) /\ ~Valid(req'[r].body))
             => /\ req'[r].resp.status = 400
                /\ req'[r].resp.msg = "Incorrect body"
                /\ req'[r].resp.dbop = "none"
                /\ store' = store]_vars

C8_Witness ==
    \E r, q \in Requests :
       /\ Answered(r, "create") /\ req[r].body.kind = "malformed"
       /\ Answered(q, "update") /\ req[q].body.kind = "mismatch"
       /\ req[r].resp.status = 400 /\ req[q].resp.status = 400
       /\ store # {}

\* C9: with the store reachable, an update with a valid body on the
\* identifier of a stored document answers 204, and afterwards that
\* identifier holds exactly the body's name and price while every other
\* document is as it was.
C9_Replace ==
    [][\A r \in Requests :
          (Step(r, "update") /\ req'[r].reachable /\ Valid(req'[r].body)
              /\ HasId(store, req'[r].id))
             => /\ req'[r].resp.status = 204
                /\ View(store') = {p \in View(store) : p.id # req'[r].id}
                                  \cup {[id |-> req'[r].id, name |-> req'[r].body.name,
                                         price |-> req'[r].body.price]}]_vars

\* C10: the open sessions are the root session and one session of its own
\* for every request in flight, whatever the requests were answered; so no
\* two requests share a session, no request holds the root session, the root
\* session stays open, and no session is open once no request is in flight.
C10_Sessions ==
    /\ sessions = {Root} \cup {req[r].session : r \in InFlight}
    /\ \A r \in InFlight : req[r].session # Root
    /\ \A r, q \in InFlight : req[r].session = req[q].session => r = q

C10_Witness ==
    \E r, q \in Requests :
       /\ r # q
       /\ req[r].pc = "idle"
       /\ Answered(q, "create") /\ req[q].resp.status = 400
       /\ Cardinality(sessions) = 2
       /\ nCreated > 0

====
